---- MODULE Spec2Model ----
(***************************************************************************)
(* Model of minidom_ext: the extension traits AttributeElementExt          *)
(* (src/src/attribute.rs) and OnlyChildElementExt (src/src/only_child.rs)  *)
(* over a minidom Element, and the Error enum with its rendered messages   *)
(* (src/src/lib.rs).                                                       *)
(*                                                                         *)
(* An Element is a record [name, attrs, children]: name is a string,       *)
(* attrs a function from attribute names to raw texts, children the        *)
(* sequence of direct child Elements in document order.  A raw text is a   *)
(* sequence of one-character strings, so that parsing can read it          *)
(* character by character; Str joins it into the string that is rendered.  *)
(* A borrowed &Element below the queried element is modelled by its path   *)
(* of child indices from that element: <<j>> is the j-th direct child,     *)
(* <<j, k>> a grandchild.                                                  *)
(***************************************************************************)
EXTENDS Integers, Sequences, FiniteSets, TLC

VARIABLES
    root,      \* the Element the methods are called on (self); never mutated
    pc,        \* position of the running call: idle, first, second, count, ret, done
    call,      \* the running call: [op, predicate, child_name, attr_name, ty]
    it,        \* child_iterator: index of the next child the Filter will pull
    child,     \* the `child` bound by `if let Some(child)`: its index, 0 if none
    tested,    \* the children the predicate was applied to in this call, in order
    found,     \* what try_find_only_child returned in this call
    result,    \* what the Result-returning method returned in this call
    option,    \* what the Option-returning wrapper returned in this call
    rendered   \* format!("{}", error) of the error in result, once formatted

vars == <<root, pc, call, it, child, tested, found, result, option, rendered>>

(***************************************************************************)
(* Bounds of the model.                                                    *)
(***************************************************************************)
MaxChildren == 3

(***************************************************************************)
(* The universe the elements are drawn from.                               *)
(***************************************************************************)
ElementNames == {"root", "child"}
ChildNames == {"child", "other", "none"}
AttrNames == {"id", "type"}
Types == {"u8", "String"}

Ugly == <<"u", "g", "l", "y">>

\* Raw attribute texts the queried element may carry under "id".
Texts ==
    { <<"4", "2">>, <<"r", "o", "o", "t", ":", "1">>, <<"2", "5", "6">>,
      <<"+", "7">>, <<>> }

NoAttrs == [a \in {} |-> <<>>]

Leaf(n, attrs) == [name |-> n, attrs |-> attrs, children |-> <<>>]

\* The kinds of direct child: <child type="ugly"/>, <child/>, <other/>, and
\* <other><child type="ugly"/></other>, whose own child is a grandchild of
\* the queried element.
ChildKinds ==
    { Leaf("child", [a \in {"type"} |-> Ugly]),
      Leaf("child", NoAttrs),
      Leaf("other", NoAttrs),
      [name |-> "other", attrs |-> NoAttrs,
       children |-> << Leaf("child", [a \in {"type"} |-> Ugly]) >>] }

ChildSeqs == UNION { [1..n -> ChildKinds] : n \in 0..MaxChildren }

RootAttrs ==
    { NoAttrs, [a \in {"type"} |-> Ugly] }
    \cup { [a \in {"id"} |-> t] : t \in Texts }
    \cup { [a \in {"id", "type"} |-> IF a = "id" THEN t ELSE Ugly] : t \in Texts }

Roots ==
    { [name |-> n, attrs |-> as, children |-> cs] :
        n \in ElementNames, as \in RootAttrs, cs \in ChildSeqs }

(***************************************************************************)
(* Option and Result.                                                      *)
(***************************************************************************)
None == [tag |-> "None"]
Some(v) == [tag |-> "Some", val |-> v]
Ok(v) == [tag |-> "Ok", val |-> v]
Err(e) == [tag |-> "Err", err |-> e]
NotCalled == [tag |-> "NotCalled"]
NotRendered == ""

(***************************************************************************)
(* The Error enum (lib.rs).  Tuple variants keep their fields under the    *)
(* names the doc comments give them, in declaration order.                 *)
(***************************************************************************)
AttributeNotFound(e, a) ==
    [variant |-> "AttributeNotFound", element_name |-> e, attribute_name |-> a]
NoChildrenFound(e) ==
    [variant |-> "NoChildrenFound", element_name |-> e]
NoChildren(e, c) ==
    [variant |-> "NoChildren", element_name |-> e, child_name |-> c]
MultipleChildrenFound(e, k) ==
    [variant |-> "MultipleChildrenFound", element_name |-> e, count |-> k]
MultipleChildren(e, c, k) ==
    [variant |-> "MultipleChildren", element_name |-> e, child_name |-> c,
     count |-> k]
ParseError(e, a, v, s) ==
    [variant |-> "ParseError", element_name |-> e, attribute_name |-> a,
     value |-> v, source |-> s]

(***************************************************************************)
(* The node capability surface of minidom::Element.                        *)
(***************************************************************************)
Name(e) == e.name

\* Mutant of Attr: an absent attribute read as the empty text.
Attr_AbsentIsEmpty(e, a) ==
    IF a \in DOMAIN e.attrs THEN Some(e.attrs[a]) ELSE Some(<<>>)

Attr(e, a) == IF a \in DOMAIN e.attrs THEN Some(e.attrs[a]) ELSE None

\* Mutant of Children: every descendant in document order, not only the
\* direct children.
RECURSIVE Flatten(_)
Flatten(kids) ==
    IF kids = <<>> THEN <<>>
    ELSE <<Head(kids)>> \o Flatten(Head(kids).children) \o Flatten(Tail(kids))

Children_Descendants(e) == Flatten(e.children)

Children(e) == e.children


(***************************************************************************)
(* Text: joining a raw text into a string, and the decimal rendering of a  *)
(* usize ({1} of MultipleChildrenFound, {2} of MultipleChildren).          *)
(***************************************************************************)
RECURSIVE Str(_)
Str(t) == IF t = <<>> THEN "" ELSE Head(t) \o Str(Tail(t))

Digits == <<"0", "1", "2", "3", "4", "5", "6", "7", "8", "9">>

RECURSIVE Decimal(_)
Decimal(n) ==
    IF n < 10 THEN Digits[n + 1] ELSE Decimal(n \div 10) \o Digits[(n % 10) + 1]

(***************************************************************************)
(* value.parse::<F>() (attribute.rs:58): the FromStr contract of the       *)
(* target type.  For u8 it is the standard library's decimal parse: empty  *)
(* text fails, one leading '+' is dropped (a lone sign fails), every other *)
(* character must be a digit, and the value must fit in 8 bits.  For       *)
(* String it never fails and yields the text.                              *)
(***************************************************************************)
U8Max == 255

DigitValue(c) ==
    IF \E d \in 1..10 : Digits[d] = c
    THEN (CHOOSE d \in 1..10 : Digits[d] = c) - 1
    ELSE -1

RECURSIVE ParseDigits(_, _)
ParseDigits(t, acc) ==
    IF t = <<>> THEN Ok(acc)
    ELSE IF DigitValue(Head(t)) < 0 THEN Err("InvalidDigit")
    ELSE IF acc * 10 + DigitValue(Head(t)) > U8Max THEN Err("PosOverflow")
    ELSE ParseDigits(Tail(t), acc * 10 + DigitValue(Head(t)))

ParseU8(t) ==
    IF t = <<>> THEN Err("Empty")
    ELSE IF Head(t) \in {"+", "-"} /\ Len(t) = 1 THEN Err("InvalidDigit")
    ELSE IF Head(t) = "+" THEN ParseDigits(Tail(t), 0)
    ELSE ParseDigits(t, 0)

Parse(ty, t) == IF ty = "u8" THEN ParseU8(t) ELSE Ok(t)

(***************************************************************************)
(* Result::ok, which every Option-returning wrapper applies.               *)
(***************************************************************************)
ok(r) == IF r.tag = "Ok" THEN Some(r.val) ELSE None

(***************************************************************************)
(* Display of Error: the #[error("...")] templates of lib.rs.              *)
(***************************************************************************)
\* Mutant of DisplayAttributeNotFound: the slots {0} and {1} exchanged.
DisplayAttributeNotFound_Swapped(e) ==
    "Failed to find attribute '" \o e.element_name
    \o "' in element '" \o e.attribute_name \o "'"

\* lib.rs:38: "Failed to find attribute '{1}' in element '{0}'".
DisplayAttributeNotFound(e) ==
    "Failed to find attribute '" \o e.attribute_name
    \o "' in element '" \o e.element_name \o "'"

Display(e) ==
    CASE e.variant = "AttributeNotFound" -> DisplayAttributeNotFound(e)
      [] e.variant = "NoChildrenFound" ->
            "No children matching predicate found in Element '"
            \o e.element_name \o "'"
      [] e.variant = "NoChildren" ->
            "No children with name '" \o e.child_name
            \o "' in Element '" \o e.element_name \o "'"
      [] e.variant = "MultipleChildrenFound" ->
            "Multiple children matching predicate found in Element '"
            \o e.element_name \o "' (found " \o Decimal(e.count) \o " elements)"
      [] e.variant = "MultipleChildren" ->
            "Multiple children with name '" \o e.child_name
            \o "' in Element '" \o e.element_name
            \o "' (found " \o Decimal(e.count) \o " elements)"
      [] e.variant = "ParseError" ->
            "Failed to parse and convert the value '" \o Str(e.value)
            \o "' of attribute '" \o e.attribute_name
            \o "' in element '" \o e.element_name \o "'"

(***************************************************************************)
(* AttributeElementExt (attribute.rs).                                     *)
(***************************************************************************)
\* Mutant of try_attribute: a text that does not parse is reported as a
\* missing attribute.
try_attribute_ParseFailureIsNotFound(self, attr_name, ty) ==
    LET value == Attr(self, attr_name) IN
    IF value.tag = "None" \/ Parse(ty, value.val).tag = "Err"
    THEN Err(AttributeNotFound(Name(self), attr_name))
    ELSE Parse(ty, value.val)

try_attribute(self, attr_name, ty) ==
    LET value == Attr(self, attr_name) IN
    IF value.tag = "None"
    THEN Err(AttributeNotFound(Name(self), attr_name))
    ELSE LET parsed == Parse(ty, value.val) IN
         IF parsed.tag = "Ok"
         THEN parsed
         ELSE Err(ParseError(Name(self), attr_name, value.val, parsed.err))

\* Mutant of attribute: an empty attribute text is taken for an absent one.
attribute_EmptyIsAbsent(self, attr_name, ty) ==
    LET value == Attr(self, attr_name) IN
    IF value.tag = "None" \/ value.val = <<>>
    THEN None
    ELSE ok(try_attribute(self, attr_name, ty))

attribute(self, attr_name, ty) == ok(try_attribute(self, attr_name, ty))

(***************************************************************************)
(* Predicates a caller passes to try_find_only_child: the name test that   *)
(* try_only_child builds (and the tests use), the predicate of the doc     *)
(* example and of tests::only_one_child, and one that accepts every child. *)
(***************************************************************************)
NameIs(c) == [kind |-> "name_is", name |-> c]
UglyChild == [kind |-> "ugly_child"]
Always == [kind |-> "always"]

Predicates == { NameIs(c) : c \in ChildNames } \cup { UglyChild, Always }

Pred(p, e) ==
    CASE p.kind = "name_is" -> Name(e) = p.name
      [] p.kind = "ugly_child" ->
            /\ Name(e) = "child"
            /\ LET t == Attr(e, "type") IN t.tag = "Some" /\ t.val = Ugly
      [] p.kind = "always" -> TRUE

(***************************************************************************)
(* The iterator self.children().filter(predicate), at position i of kids.  *)
(* FilterNext is one call of next(): it pulls children from position i     *)
(* until one satisfies the predicate.  item is that child's index (0 when  *)
(* the children ran out), pos the position it leaves the iterator at,      *)
(* scanned the indices the predicate was applied to.  FilterCount is       *)
(* count(): it drains the iterator from position i.                        *)
(***************************************************************************)
\* Mutant of FilterNext: the predicate is not applied, the next child is
\* yielded as it comes.
FilterNext_Unfiltered(kids, p, i) ==
    IF i > Len(kids)
    THEN [item |-> 0, pos |-> i, scanned |-> <<>>]
    ELSE [item |-> i, pos |-> i + 1, scanned |-> <<i>>]

RECURSIVE FilterNext(_, _, _)
FilterNext(kids, p, i) ==
    IF i > Len(kids)
    THEN [item |-> 0, pos |-> i, scanned |-> <<>>]
    ELSE IF Pred(p, kids[i])
    THEN [item |-> i, pos |-> i + 1, scanned |-> <<i>>]
    ELSE LET r == FilterNext(kids, p, i + 1) IN
         [item |-> r.item, pos |-> r.pos, scanned |-> <<i>> \o r.scanned]

\* Mutant of FilterCount: the matches are counted by a fresh scan from the
\* first child instead of by the iterator already advanced.
FilterCount_Restart(kids, p, i) ==
    [count |-> Cardinality({ j \in 1..Len(kids) : Pred(p, kids[j]) }),
     pos |-> Len(kids) + 1,
     scanned |-> [k \in 1..Len(kids) |-> k]]

RECURSIVE FilterCount(_, _, _)
FilterCount(kids, p, i) ==
    IF i > Len(kids)
    THEN [count |-> 0, pos |-> i, scanned |-> <<>>]
    ELSE LET r == FilterCount(kids, p, i + 1) IN
         [count |-> (IF Pred(p, kids[i]) THEN 1 ELSE 0) + r.count,
          pos |-> r.pos, scanned |-> <<i>> \o r.scanned]

\* Mutant of MultipleCount: "more than one" reported as two.
MultipleCount_Two(rest) == 2

\* only_child.rs:97-100: the count carried by MultipleChildrenFound.
MultipleCount(rest) == 2 + rest

\* Mutant of RemapError: NoChildrenFound is not renamed and takes the
\* pass-through arm.
RemapError_PassNoChildren(e, child_name) ==
    CASE e.variant = "MultipleChildrenFound" ->
            MultipleChildren(e.element_name, child_name, e.count)
      [] OTHER -> e

\* only_child.rs:129-137: the closure try_only_child hands to map_err.
RemapError(e, child_name) ==
    CASE e.variant = "MultipleChildrenFound" ->
            MultipleChildren(e.element_name, child_name, e.count)
      [] e.variant = "NoChildrenFound" ->
            NoChildren(e.element_name, child_name)
      [] OTHER -> e

map_err(r, child_name) ==
    IF r.tag = "Err" THEN Err(RemapError(r.err, child_name)) ELSE r

\* only_child.rs:127-138, given what the delegated try_find_only_child returned.
try_only_child(delegated, child_name) == map_err(delegated, child_name)

\* only_child.rs:33-38 and 58-60, given what the try_ method returned.
find_only_child(r) == ok(r)

\* Mutant of only_child: of several children with the name, the first.
only_child_FirstOfSeveral(r) ==
    IF r.tag = "Ok" THEN Some(r.val)
    ELSE IF r.err.variant = "MultipleChildren" THEN Some(<<1>>)
    ELSE None

only_child(r) == ok(r)

(***************************************************************************)
(* The state machine.                                                      *)
(***************************************************************************)
NoCall == [op |-> "none"]
FindOps == {"try_find_only_child", "find_only_child"}
NameOps == {"try_only_child", "only_child"}
Wrappers == {"find_only_child", "only_child", "attribute"}
ScanOps == FindOps \cup NameOps
AttrOps == {"try_attribute", "attribute"}

Init ==
    /\ root \in Roots
    /\ pc = "idle"
    /\ call = NoCall
    /\ it = 0
    /\ child = 0
    /\ tested = <<>>
    /\ found = NotCalled
    /\ result = NotCalled
    /\ option = NotCalled
    /\ rendered = NotRendered

\* A call that scans the children starts with the lazy iterator of line 92:
\* nothing is tested yet.
StartScan ==
    /\ pc' = "first"
    /\ it' = 1
    /\ UNCHANGED <<root, child, tested, found, result, option, rendered>>

Call_try_find_only_child ==
    /\ pc = "idle"
    /\ \E p \in Predicates :
            call' = [op |-> "try_find_only_child", predicate |-> p]
    /\ StartScan

Call_find_only_child ==
    /\ pc = "idle"
    /\ \E p \in Predicates :
            call' = [op |-> "find_only_child", predicate |-> p]
    /\ StartScan

Call_try_only_child ==
    /\ pc = "idle"
    /\ \E c \in ChildNames :
            call' = [op |-> "try_only_child", predicate |-> NameIs(c),
                     child_name |-> c]
    /\ StartScan

Call_only_child ==
    /\ pc = "idle"
    /\ \E c \in ChildNames :
            call' = [op |-> "only_child", predicate |-> NameIs(c),
                     child_name |-> c]
    /\ StartScan

\* only_child.rs:93: if let Some(child) = child_iterator.next() ... else
\* Err(NoChildrenFound) (line 103).
IterFirst ==
    /\ pc = "first"
    /\ LET n == FilterNext(Children(root), call.predicate, it) IN
        /\ it' = n.pos
        /\ tested' = tested \o n.scanned
        /\ child' = n.item
        /\ IF n.item = 0
           THEN /\ found' = Err(NoChildrenFound(Name(root)))
                /\ pc' = "ret"
           ELSE /\ found' = found
                /\ pc' = "second"
    /\ UNCHANGED <<root, call, result, option, rendered>>

\* only_child.rs:94-95: if child_iterator.next().is_none() { Ok(child) }.
IterSecond ==
    /\ pc = "second"
    /\ LET n == FilterNext(Children(root), call.predicate, it) IN
        /\ it' = n.pos
        /\ tested' = tested \o n.scanned
        /\ IF n.item = 0
           THEN /\ found' = Ok(<<child>>)
                /\ pc' = "ret"
           ELSE /\ found' = found
                /\ pc' = "count"
    /\ UNCHANGED <<root, call, child, result, option, rendered>>

\* only_child.rs:97-100: Err(MultipleChildrenFound(name, 2 + count())).
IterCount ==
    /\ pc = "count"
    /\ LET c == FilterCount(Children(root), call.predicate, it) IN
        /\ it' = c.pos
        /\ tested' = tested \o c.scanned
        /\ found' = Err(MultipleChildrenFound(Name(root), MultipleCount(c.count)))
    /\ pc' = "ret"
    /\ UNCHANGED <<root, call, child, result, option, rendered>>

\* try_find_only_child has returned `found`; the caller's own code follows:
\* map_err in try_only_child (lines 128-137), .ok() in the wrappers.
Finish ==
    /\ pc = "ret"
    /\ LET r == IF call.op \in NameOps
                THEN try_only_child(found, call.child_name)
                ELSE found IN
        /\ result' = r
        /\ option' = CASE call.op = "find_only_child" -> find_only_child(r)
                        [] call.op = "only_child" -> only_child(r)
                        [] OTHER -> NotCalled
    /\ pc' = "done"
    /\ UNCHANGED <<root, call, it, child, tested, found, rendered>>

Call_try_attribute ==
    /\ pc = "idle"
    /\ \E a \in AttrNames, ty \in Types :
        /\ call' = [op |-> "try_attribute", attr_name |-> a, ty |-> ty]
        /\ result' = try_attribute(root, a, ty)
    /\ pc' = "done"
    /\ UNCHANGED <<root, it, child, tested, found, option, rendered>>

Call_attribute ==
    /\ pc = "idle"
    /\ \E a \in AttrNames, ty \in Types :
        /\ call' = [op |-> "attribute", attr_name |-> a, ty |-> ty]
        /\ result' = try_attribute(root, a, ty)
        /\ option' = attribute(root, a, ty)
    /\ pc' = "done"
    /\ UNCHANGED <<root, it, child, tested, found, rendered>>

\* The caller formats the error it got, as the tests do.
Format ==
    /\ pc = "done"
    /\ result.tag = "Err"
    /\ rendered = NotRendered
    /\ rendered' = Display(result.err)
    /\ UNCHANGED <<root, pc, call, it, child, tested, found, result, option>>

\* The call is over; its values are dropped and the element is as it was.
Return ==
    /\ pc = "done"
    /\ pc' = "idle"
    /\ call' = NoCall
    /\ it' = 0
    /\ child' = 0
    /\ tested' = <<>>
    /\ found' = NotCalled
    /\ result' = NotCalled
    /\ option' = NotCalled
    /\ rendered' = NotRendered
    /\ UNCHANGED root

Next ==
    \/ Call_try_find_only_child
    \/ Call_find_only_child
    \/ Call_try_only_child
    \/ Call_only_child
    \/ IterFirst
    \/ IterSecond
    \/ IterCount
    \/ Finish
    \/ Call_try_attribute
    \/ Call_attribute
    \/ Format
    \/ Return

Spec == Init /\ [][Next]_vars

(***************************************************************************)
(* Properties.                                                             *)
(***************************************************************************)

\* The direct children of the queried element that satisfy the predicate of
\* the running call, by index.
Matches ==
    { i \in 1..Len(root.children) : Pred(call.predicate, root.children[i]) }

\* try_find_only_child has returned in the running call.
ScanReturned == call.op \in ScanOps /\ pc \in {"ret", "done"}

\* The running call is an attribute call that has returned.
AttrReturned == call.op \in AttrOps /\ pc = "done"

\* C1: try_find_only_child(N, P) returns Ok if and only if exactly one
\* direct child of N satisfies P, and the value is then that child: a direct
\* child of N (a path of length one) that satisfies P.
C1_OnlyChild ==
    ScanReturned =>
        /\ found.tag = "Ok" <=> Cardinality(Matches) = 1
        /\ found.tag = "Ok" => found.val \in { <<j>> : j \in Matches }

\* The only match is the third child, after a child that does not match but
\* has a matching child of its own.
C1_Witness ==
    /\ ScanReturned
    /\ call.op = "try_find_only_child"
    /\ call.predicate = UglyChild
    /\ found = Ok(<<3>>)
    /\ root.children[1].children # <<>>
    /\ Pred(UglyChild, root.children[1].children[1])

\* C2: when k >= 2 direct children satisfy P, try_find_only_child fails
\* with MultipleChildrenFound(name of N, k), k being the exact number of
\* matching direct children.
C2_MultipleCount ==
    ScanReturned =>
        (Cardinality(Matches) >= 2 =>
            found = Err(MultipleChildrenFound(root.name, Cardinality(Matches))))

\* Three matches are reported as three.
C2_Witness ==
    /\ ScanReturned
    /\ call.op = "try_find_only_child"
    /\ Cardinality(Matches) = 3
    /\ found.tag = "Err"
    /\ found.err.variant = "MultipleChildrenFound"
    /\ found.err.count = 3

\* C3: when no direct child satisfies P, try_find_only_child fails with
\* NoChildrenFound carrying N's name, whether N has no children or children
\* that all fail P.
C3_NoChildrenFound ==
    ScanReturned =>
        (Matches = {} => found = Err(NoChildrenFound(root.name)))

\* N has a child, which fails P although its own child satisfies it.
C3_Witness ==
    /\ ScanReturned
    /\ call.op = "try_find_only_child"
    /\ call.predicate = UglyChild
    /\ root.children # <<>>
    /\ root.children[1].children # <<>>
    /\ Matches = {}
    /\ found.tag = "Err"
    /\ found.err.variant = "NoChildrenFound"

\* The number of direct children named as the running call asks.
Named ==
    Cardinality({ i \in 1..Len(root.children) :
                    root.children[i].name = call.child_name })

\* C4: try_only_child(N, c) is what try_find_only_child(N, name == c)
\* returned with the errors renamed: Ok stays the same child,
\* NoChildrenFound(e) becomes NoChildren(e, c), MultipleChildrenFound(e, k)
\* becomes MultipleChildren(e, c, k); no other variant comes out.
C4_TryOnlyChildRenames ==
    (call.op \in NameOps /\ pc = "done") =>
        /\ call.predicate = NameIs(call.child_name)
        /\ found.tag = "Ok" => result = found
        /\ (found.tag = "Err" /\ found.err.variant = "NoChildrenFound") =>
                result = Err(NoChildren(found.err.element_name, call.child_name))
        /\ (found.tag = "Err" /\ found.err.variant = "MultipleChildrenFound") =>
                result = Err(MultipleChildren(found.err.element_name,
                                              call.child_name, found.err.count))
        /\ result.tag \in {"Ok", "Err"}
        /\ result.tag = "Err" =>
                result.err.variant \in {"NoChildren", "MultipleChildren"}
        /\ Named = 0 => result = Err(NoChildren(root.name, call.child_name))
        /\ Named = 1 => result.tag = "Ok"
        /\ Named >= 2 =>
                result = Err(MultipleChildren(root.name, call.child_name, Named))

\* try_only_child has renamed a NoChildrenFound.
C4_Witness ==
    /\ call.op = "try_only_child"
    /\ pc = "done"
    /\ root.children # <<>>
    /\ found = Err(NoChildrenFound(root.name))
    /\ result = Err(NoChildren(root.name, call.child_name))

\* C5: when N does not carry attribute A, try_attribute(N, A) fails with
\* AttributeNotFound(name of N, A) for every target type, and
\* attribute(N, A) returns None.
C5_AttributeNotFound ==
    (AttrReturned /\ call.attr_name \notin DOMAIN root.attrs) =>
        /\ result = Err(AttributeNotFound(root.name, call.attr_name))
        /\ call.op = "attribute" => option = None

\* N carries another attribute, but not the one asked for.
C5_Witness ==
    /\ AttrReturned
    /\ call.op = "attribute"
    /\ call.ty = "u8"
    /\ call.attr_name = "id"
    /\ DOMAIN root.attrs = {"type"}
    /\ option = None

\* C6: when N carries attribute A and its raw text fails to parse as T,
\* try_attribute::<T>(N, A) fails with ParseError carrying N's name, A and
\* the raw text unchanged.
C6_ParseError ==
    (AttrReturned /\ call.attr_name \in DOMAIN root.attrs) =>
        LET text == root.attrs[call.attr_name] IN
        (\/ Parse(call.ty, text).tag = "Err"
         \/ (call.ty = "u8" /\ text = <<"r", "o", "o", "t", ":", "1">>)) =>
            /\ result.tag = "Err"
            /\ result.err.variant = "ParseError"
            /\ result.err.element_name = root.name
            /\ result.err.attribute_name = call.attr_name
            /\ result.err.value = text

\* id="root:1" read as a number.
C6_Witness ==
    /\ AttrReturned
    /\ call.op = "try_attribute"
    /\ call.ty = "u8"
    /\ call.attr_name = "id"
    /\ "id" \in DOMAIN root.attrs
    /\ root.attrs["id"] = <<"r", "o", "o", "t", ":", "1">>
    /\ result.tag = "Err"
    /\ result.err.variant = "ParseError"

\* C7: when N carries attribute A and its raw text parses as T to v,
\* try_attribute::<T>(N, A) returns Ok(v) and attribute::<T>(N, A) returns
\* Some(v).  The text "42" read as a number is 42; any text read as a String
\* is that text.
C7_ParsedValue ==
    (AttrReturned /\ call.attr_name \in DOMAIN root.attrs) =>
        LET text == root.attrs[call.attr_name]
            parsed == Parse(call.ty, text) IN
        /\ parsed.tag = "Ok" =>
                /\ result = Ok(parsed.val)
                /\ call.op = "attribute" => option = Some(parsed.val)
        /\ (call.ty = "u8" /\ text = <<"4", "2">>) => result = Ok(42)
        /\ call.ty = "String" => result = Ok(text)

\* id="42" read as a number through the wrapper.
C7_Witness ==
    /\ AttrReturned
    /\ call.op = "attribute"
    /\ call.ty = "u8"
    /\ call.attr_name = "id"
    /\ "id" \in DOMAIN root.attrs
    /\ root.attrs["id"] = <<"4", "2">>
    /\ option = Some(42)

\* C8: each Option-returning wrapper returns Some(v) exactly when its
\* Result-returning counterpart returns Ok(v), and None for every failure:
\* find_only_child and only_child return Some exactly when one direct child
\* matches, attribute exactly when the attribute is present and parses.
C8_WrappersAgree ==
    (call.op \in Wrappers /\ pc = "done") =>
        /\ result.tag = "Ok" => option = Some(result.val)
        /\ result.tag = "Err" => option = None
        /\ result.tag \in {"Ok", "Err"}
        /\ call.op \in {"find_only_child", "only_child"} =>
                (option.tag = "Some" <=> Cardinality(Matches) = 1)
        /\ call.op = "attribute" =>
                (option.tag = "Some" <=>
                    /\ call.attr_name \in DOMAIN root.attrs
                    /\ Parse(call.ty, root.attrs[call.attr_name]).tag = "Ok")

\* only_child with several children of the name: None, as for none.
C8_Witness ==
    /\ call.op = "only_child"
    /\ pc = "done"
    /\ result.tag = "Err"
    /\ result.err.variant = "MultipleChildren"
    /\ option = None

\* C9: the rendered text of an error is its template with the fields in the
\* named slots: AttributeNotFound(e, a) is "Failed to find attribute 'a' in
\* element 'e'", ParseError is "Failed to parse and convert the value 'v' of
\* attribute 'a' in element 'e'", NoChildrenFound(e) is "No children
\* matching predicate found in Element 'e'", MultipleChildrenFound(e, k) is
\* "Multiple children matching predicate found in Element 'e' (found k
\* elements)".
C9_Rendered ==
    rendered # NotRendered =>
        LET e == result.err IN
        /\ e.variant = "AttributeNotFound" =>
                rendered = "Failed to find attribute '" \o e.attribute_name
                           \o "' in element '" \o e.element_name \o "'"
        /\ e.variant = "ParseError" =>
                rendered = "Failed to parse and convert the value '"
                           \o Str(e.value) \o "' of attribute '"
                           \o e.attribute_name \o "' in element '"
                           \o e.element_name \o "'"
        /\ e.variant = "NoChildrenFound" =>
                rendered = "No children matching predicate found in Element '"
                           \o e.element_name \o "'"
        /\ e.variant = "MultipleChildrenFound" =>
                rendered = "Multiple children matching predicate found in Element '"
                           \o e.element_name \o "' (found "
                           \o ToString(e.count) \o " elements)"
        /\ e = AttributeNotFound("root", "id") =>
                rendered = "Failed to find attribute 'id' in element 'root'"
        /\ e = MultipleChildrenFound("root", 2) =>
                rendered = "Multiple children matching predicate found in Element 'root' (found 2 elements)"
        /\ (e.variant = "ParseError" /\ e.element_name = "root"
            /\ e.attribute_name = "id"
            /\ e.value = <<"r", "o", "o", "t", ":", "1">>) =>
                rendered = "Failed to parse and convert the value 'root:1' of attribute 'id' in element 'root'"

\* The message of tests::no_attribute.
C9_Witness ==
    /\ call.op = "try_attribute"
    /\ result = Err(AttributeNotFound("root", "id"))
    /\ rendered = "Failed to find attribute 'id' in element 'root'"

\* C10: one call of try_find_only_child is a single pass over N's direct
\* children: the predicate is applied to direct children only, in document
\* order, to each at most once; each step of the scan resumes right after
\* the last child tested, the first match being the last child tested when
\* the second is looked for.
C10_SinglePass ==
    call.op \in ScanOps =>
        /\ Len(tested) <= Len(root.children)
        /\ \A k \in 1..Len(tested) : tested[k] = k
        /\ pc \in {"first", "second", "count"} => it = Len(tested) + 1
        /\ pc \in {"second", "count"} => child \in 1..Len(tested)
        /\ pc = "second" => child = Len(tested)

\* Two matches, then a third child that count() tests once.
C10_Witness ==
    /\ ScanReturned
    /\ Len(root.children) = 3
    /\ Matches = {1, 2}
    /\ tested = <<1, 2, 3>>
    /\ found.tag = "Err"
    /\ found.err.variant = "MultipleChildrenFound"

====
